---- MODULE Spec2Model ----
(***************************************************************************)
(* Ghost input filter (src/ghost-input-filter.py): the windowed evaluation *)
(* of button transitions of one Device.                                    *)
(*                                                                         *)
(* Time is counted in milliseconds.  The source converts the configured    *)
(* millisecond values to seconds (x / 1000) and compares them with         *)
(* differences of datetime.now(); the model keeps every duration and every *)
(* timestamp in milliseconds, which preserves every comparison.            *)
(* A threading.Timer fires in the millisecond in which it falls due;       *)
(* callbacks and arrivals of the same millisecond run in any order.        *)
(***************************************************************************)
EXTENDS Integers, Sequences, FiniteSets, TLC

\* ---------------------------------------------------------------- bounds
NumButtons == 2
MaxTransitions == 3
MaxTime == 1
MaxMaxConcurrent == 2
MaxCallbacks == 2
MaxCbTransitions == 2
MaxSummaryTransitions == 2
MaxSingles == 3
MaxPairs == 1
MaxElapsed == 1
MaxSummaries == 1
MaxCloneTransitions == 2
MaxCloseTransitions == 4
MaxTimespan == 2
MaxThreshold == 2
MaxFilteredTransitions == 3
MaxFilteredTime == 0
MaxCounterTransitions == 3

Identifiers == 1..NumButtons
Directions == {"press", "release"}
\* the functions decorated by the custom code, numbered as they are defined
Handles == 1..MaxCallbacks

\* configured values offered to Settings.Buttons (milliseconds)
\* <<latency, min_separation>>: no separation, a separation above the
\* latency, a separation below the latency
TimingChoices == {<<1, 0>>, <<1, 2>>, <<2, 1>>}
LatencyChoices == {1, 2}
MaxConcurrentChoices == 0..MaxMaxConcurrent

\* Python None in a datetime field, and in a field that holds a bool
NoTime == -1
None == "None"
Bool3(b) == IF b THEN "True" ELSE "False"

Abs(x) == IF x < 0 THEN -x ELSE x

VARIABLES
    settings,       \* Settings.Buttons of the device
    callbacks,      \* settings.buttons.callbacks[direction][identifier]
    now,            \* datetime.now(), in ms
    physical,       \* physical_device.button(id).is_pressed
    virtual,        \* virtual_device.button(id).is_pressed
    the_buttons,    \* the Button objects created so far, in creation order
    active_event,   \* events.active_event
    totals,         \* events.totals
    timers,         \* threading.Timer objects started and not yet fired
    output,         \* per Button: what its evaluation wrote and called
    rerun,          \* the second, explicit invocation of filter_the_button
    general,        \* Settings.logging and Settings.debug
    concurrent_presses, \* FilteredDevice.concurrent_presses (the earlier versions)
    delivered,      \* the button events handed to an earlier version
    logger,         \* logger.summary, and the summaries written to the log
    last_event,     \* events.last_event
    complete,       \* events.complete.list
    threads,        \* calls that run on a thread and have started but not returned
    raised,         \* the exception the last call of an operation let escape
    aliased         \* events.last_event.buttons is the very dict object that
                    \* active_event.buttons is

vars == <<settings, callbacks, now, physical, virtual, the_buttons,
          active_event, totals, timers, output, rerun,
          general, concurrent_presses, delivered, logger, last_event,
          complete, threads, raised, aliased>>

\* ------------------------------------------------------------- settings
Settings_Buttons(enabled, filter, latency, max_concurrent, min_separation, is_strict) ==
    [enabled        |-> enabled,
     filter         |-> filter,
     latency        |-> IF filter THEN latency ELSE 0,
     max_concurrent |-> max_concurrent,
     min_separation |-> IF filter THEN min_separation ELSE 0,
     is_strict      |-> is_strict]

\* ---------------------------------------------------------------- Event
Event(t) ==
    [start_time |-> t, end_time |-> NoTime, id |-> t, buttons |-> <<>>]

\* dict assignment d[k] = v
DictSet(d, k, v) == [x \in (DOMAIN d) \cup {k} |-> IF x = k THEN v ELSE d[x]]

\* `heap` is the state of the Button objects the event's dict refers to
has_any(heap, is_ghost) ==
    \E k \in DOMAIN active_event.buttons :
        heap[active_event.buttons[k]].is_ghost = is_ghost

has_matching(self, is_ghost) ==
    IF self.identifier \in DOMAIN active_event.buttons
    THEN the_buttons[active_event.buttons[self.identifier]].is_ghost = is_ghost
    ELSE FALSE

get_active_presses(heap) ==
    {k \in DOMAIN active_event.buttons :
        heap[active_event.buttons[k]].end_time = NoTime}

\* find_button has no return statement: it evaluates the lookup and
\* returns None, which the caller tests for truth
find_button(self) == FALSE

\* events.last_event before any event was flushed
NoEvent == [start_time |-> NoTime, end_time |-> NoTime, id |-> NoTime,
            buttons |-> <<>>]

\* the dict object handed to Event(...), were it self.buttons itself
dict_same(d) == [same |-> TRUE, items |-> d]

\* dict(d): a new dict object with the items of d; `same` tells whether the
\* result is the object d
dict(d) == [same |-> FALSE, items |-> d]

\* the buttons of the clone: Event.__init__ keeps the dict it is given
\* unless that is empty, and then makes a new one
clone_event_buttons(self) ==
    LET buttons == dict(self.buttons)
    IN  IF DOMAIN buttons.items # {} THEN buttons
        ELSE [same |-> FALSE, items |-> <<>>]

\* a new Event built from the fields of `self`; every falsy argument is
\* replaced by the default of Event.__init__ (a datetime is never falsy)
clone_event(self) ==
    [start_time |-> IF self.start_time # NoTime THEN self.start_time ELSE now,
     end_time |-> self.end_time,
     id |-> IF self.id # NoTime THEN self.id
            ELSE IF self.start_time # NoTime THEN self.start_time ELSE now,
     buttons |-> clone_event_buttons(self).items]

\* --------------------------------------------------------------- Button
Button(identifier, is_pressed) ==
    [event_id         |-> NoTime,
     identifier       |-> identifier,
     was_a_press      |-> is_pressed,
     is_still_pressed |-> None,
     is_ghost         |-> None,
     start_time       |-> now,
     trigger_time     |-> NoTime,
     end_time         |-> NoTime]

connect_to_event(self, the_event) == [self EXCEPT !.event_id = the_event.id]

\* is_button_within_threshold, without the `continue` for the Button's own
\* identifier
is_button_within_threshold_self(self) ==
    \E k \in DOMAIN active_event.buttons :
        LET button == the_buttons[active_event.buttons[k]] IN
        Abs(self.start_time - button.start_time) < settings.min_separation

\* is_button_within_threshold, counting only a positive delta (as
\* Event.is_event_within_threshold does)
is_button_within_threshold_later(self) ==
    \E k \in DOMAIN active_event.buttons :
        LET button == the_buttons[active_event.buttons[k]] IN
        /\ button.identifier # self.identifier
        /\ self.start_time - button.start_time > 0
        /\ self.start_time - button.start_time < settings.min_separation

is_button_within_threshold(self) ==
    \E k \in DOMAIN active_event.buttons :
        LET button == the_buttons[active_event.buttons[k]] IN
        /\ button.identifier # self.identifier
        /\ Abs(self.start_time - button.start_time) < settings.min_separation

\* is_ghost_press, with >= in place of > in the concurrency test
is_ghost_press_at_least(self) ==
    LET is_filtering == settings.filter
        is_max_concurrent ==
            Cardinality(DOMAIN active_event.buttons) >= settings.max_concurrent
        is_within_min_separation == is_button_within_threshold(self)
        is_legitimate_long_press ==
            self.is_still_pressed = "True" /\ ~settings.is_strict
    IN  is_filtering /\ is_max_concurrent /\ is_within_min_separation
            /\ ~is_legitimate_long_press

\* is_ghost_press, with the long-press exemption not switched off by
\* strict mode
is_ghost_press_lenient(self) ==
    LET is_filtering == settings.filter
        is_max_concurrent ==
            Cardinality(DOMAIN active_event.buttons) > settings.max_concurrent
        is_within_min_separation == is_button_within_threshold(self)
        is_legitimate_long_press == self.is_still_pressed = "True"
    IN  is_filtering /\ is_max_concurrent /\ is_within_min_separation
            /\ ~is_legitimate_long_press

is_ghost_press(self) ==
    LET is_filtering == settings.filter
        is_max_concurrent ==
            Cardinality(DOMAIN active_event.buttons) > settings.max_concurrent
        is_within_min_separation == is_button_within_threshold(self)
        is_legitimate_long_press ==
            self.is_still_pressed = "True" /\ ~settings.is_strict
    IN  is_filtering /\ is_max_concurrent /\ is_within_min_separation
            /\ ~is_legitimate_long_press

is_ghost_release(self) ==
    LET is_filtering == settings.filter
        has_matching_ghost_press ==
            IF self.event_id # NoTime THEN has_matching(self, "True") ELSE FALSE
    IN  is_filtering /\ has_matching_ghost_press

evaluate_button(self) ==
    [self EXCEPT !.trigger_time = now,
                 !.is_ghost = Bool3(IF self.was_a_press
                                    THEN is_ghost_press(self)
                                    ELSE is_ghost_release(self))]

\* expire, leaving end_time as it is
expire_unset(self) == self

expire(self) == [self EXCEPT !.end_time = now]

\* --------------------------------------------------------------- totals
RECURSIVE Factorial(_)
Factorial(n) == IF n <= 1 THEN 1 ELSE n * Factorial(n - 1)

\* by_simultaneity and by_combination hold floats that grow by 1.0 / size;
\* they are kept as exact multiples of 1 / Scale
Scale == Factorial(NumButtons)

Combinations == (SUBSET Identifiers) \ {{}}

InitTotals ==
    [events |->
        [allowed |-> [total |-> 0,
                      by_simultaneity |-> [n \in Identifiers |-> 0],
                      by_combination |-> [c \in Combinations |-> 0]],
         blocked |-> [total |-> 0,
                      by_simultaneity |-> [n \in Identifiers |-> 0],
                      by_combination |-> [c \in Combinations |-> 0]],
         mixed   |-> [total |-> 0]],
     buttons |->
        [allowed |-> [total |-> 0, by_button |-> [b \in Identifiers |-> 0]],
         blocked |-> [total |-> 0, by_button |-> [b \in Identifiers |-> 0]]]]

\* the by_event[event_type] key sets built by the per-button loop
by_event(heap, event_type) ==
    {k \in DOMAIN active_event.buttons :
        (heap[active_event.buttons[k]].is_ghost = "True")
            = (event_type = "blocked")}

EventTotalsAfter(old, keys) ==
    IF keys = {} THEN old
    ELSE [old EXCEPT
            !.by_simultaneity[Cardinality(keys)] = @ + Scale \div Cardinality(keys),
            !.by_combination[keys] = @ + Scale \div Cardinality(keys)]

\* the per-button loop, counting each group from zero
ButtonTotalsAfter_restarting(old, keys) ==
    [total |-> old.total + Cardinality(keys),
     by_button |-> [b \in Identifiers |-> IF b \in keys THEN 1 ELSE 0]]

ButtonTotalsAfter(old, keys) ==
    [total |-> old.total + Cardinality(keys),
     by_button |-> [b \in Identifiers |->
                        old.by_button[b] + IF b \in keys THEN 1 ELSE 0]]

\* lines 399-415: the totals `old` after a group of the given kind, with
\* the given allowed and blocked members, was counted
TotalsAfter(old, kind, allowed, blocked) ==
    LET counted == [old EXCEPT !.events[kind].total = @ + 1]
    IN  [events |->
            [allowed |-> EventTotalsAfter(counted.events.allowed, allowed),
             blocked |-> EventTotalsAfter(counted.events.blocked, blocked),
             mixed   |-> counted.events.mixed],
         buttons |->
            [allowed |-> ButtonTotalsAfter(old.buttons.allowed, allowed),
             blocked |-> ButtonTotalsAfter(old.buttons.blocked, blocked)]]

\* update_totals, with the event type taken from has_any() alone
update_totals_homogeneous(heap) ==
    IF ~settings.enabled THEN totals
    ELSE
    LET is_ghost == has_any(heap, "True")
        kind == IF is_ghost THEN "blocked" ELSE "allowed"
    IN  TotalsAfter(totals, kind,
                    by_event(heap, "allowed"), by_event(heap, "blocked"))

\* the value of events.totals after update_totals() ran on active_event
update_totals(heap) ==
    IF ~settings.enabled THEN totals
    ELSE
    LET is_ghost == has_any(heap, "True")
        is_heterogeneous == has_any(heap, Bool3(~is_ghost))
        kind == IF is_heterogeneous THEN "mixed"
                ELSE IF is_ghost THEN "blocked" ELSE "allowed"
    IN  TotalsAfter(totals, kind,
                    by_event(heap, "allowed"), by_event(heap, "blocked"))

\* ------------------------------------------------------------- registries
\* Event.flush_event on active_event (with the Button states `heap`): the
\* event with its end_time, events.last_event and events.complete.list.
\* The delta and threshold of an Event only feed the text of the log line.
flushed_event == [active_event EXCEPT !.end_time = now]

flush_event_last_event(heap) ==
    LET is_ghost_event == has_any(heap, "True")
        msg == is_ghost_event \/ general.debug
    IN  IF msg THEN clone_event(flushed_event) ELSE last_event

flush_event_complete(heap) ==
    LET is_ghost_event == has_any(heap, "True")
        msg == is_ghost_event \/ general.debug
    IN  IF msg /\ general.debug /\ ~is_ghost_event
        THEN DictSet(complete, flushed_event.id, clone_event(flushed_event))
        ELSE complete

\* ---------------------------------------------------------------- Logger
\* a float that is a quotient of two counters, kept exact
Ratio(num, den) == [num |-> num, den |-> den]

\* a key that logger.summary does not hold yet
NoRatio == Ratio(0, 0)

\* round(x, 3) of a non-negative quotient, in thousandths
Rounded3(x) == (2 * 1000 * x.num + x.den) \div (2 * x.den)

Logger(enabled) ==
    [enabled |-> enabled,
     summary |-> [percentage |-> Ratio(0, 1), elapsed_time |-> 0,
                  per_minute |-> NoRatio, per_hour |-> NoRatio],
     lines |-> <<>>]

\* --------------------------------------------------------------- timers
\* defer, with a timer that fires one millisecond late
defer_late(time, func, arg) ==
    [due |-> now + time + 1, func |-> func, arg |-> arg]

defer(time, func, arg) == [due |-> now + time, func |-> func, arg |-> arg]

\* ------------------------------------------------------------------ Init
\* the configurations of a device: with filtering on, every offered
\* timing, max_concurrent and strict mode; with filtering off, the defaults
Configurations ==
    {Settings_Buttons(TRUE, TRUE, t[1], m, t[2], st) :
        t \in TimingChoices, m \in MaxConcurrentChoices, st \in BOOLEAN}
    \cup {Settings_Buttons(TRUE, FALSE, 35, 1, 10, TRUE)}

\* a Device right after construction, with the given Settings.Buttons
Constructed(the_settings) ==
    /\ settings = the_settings
    /\ callbacks = [d \in Directions |-> [b \in Identifiers |-> <<>>]]
    /\ now = 0
    /\ physical = [b \in Identifiers |-> FALSE]
    /\ virtual = [b \in Identifiers |-> FALSE]
    /\ the_buttons = <<>>
    /\ active_event = Event(0)
    /\ totals = InitTotals
    /\ timers = {}
    /\ output = <<>>
    /\ rerun = [done |-> FALSE, index |-> 0, totals |-> InitTotals, count |-> 0]
    /\ general = [logging |-> TRUE, debug |-> FALSE]
    /\ concurrent_presses = {}
    /\ delivered = <<>>
    /\ logger = Logger(TRUE)
    /\ last_event = NoEvent
    /\ complete = <<>>
    /\ threads = {}
    /\ raised = None
    /\ aliased = FALSE

Init == \E the_settings \in Configurations : Constructed(the_settings)

\* --------------------------------------------------------------- actions

\* Events.start_tracking: the Button as connected, and the active event
start_tracking_button(the_button) ==
    IF ~settings.enabled THEN the_button
    ELSE connect_to_event(the_button, active_event)

\* start_tracking_event, keeping the Button the dict already holds for the
\* identifier
start_tracking_event_keeping(the_button, index) ==
    IF ~settings.enabled THEN active_event
    ELSE IF the_button.identifier \in DOMAIN active_event.buttons
         THEN active_event
         ELSE [active_event EXCEPT
                 !.buttons = DictSet(@, the_button.identifier, index)]

start_tracking_event(the_button, index) ==
    IF ~settings.enabled THEN active_event
    ELSE [active_event EXCEPT
            !.buttons = DictSet(@, the_button.identifier, index)]

\* Device.initialize_buttons.callback: the physical button `identifier`
\* changes state and the decorated callback runs on the event; at most
\* `limit` transitions arrive, none of them later than `horizon`
callback(identifier, limit, horizon) ==
    LET is_pressed == ~physical[identifier]
        the_button == Button(identifier, is_pressed)
        index == Len(the_buttons) + 1
    IN
    /\ settings.enabled
    /\ Len(the_buttons) < limit
    /\ now <= horizon
    /\ physical' = [physical EXCEPT ![identifier] = is_pressed]
    /\ IF the_button.was_a_press
       THEN /\ the_buttons' = Append(the_buttons, start_tracking_button(the_button))
            /\ active_event' = start_tracking_event(the_button, index)
       ELSE /\ the_buttons' = Append(the_buttons,
                                IF find_button(the_button)
                                THEN connect_to_event(the_button, active_event)
                                ELSE the_button)
            /\ active_event' = active_event
    /\ timers' = timers \cup {defer(settings.latency, "filter_the_button", index)}
    /\ output' = Append(output, <<>>)
    /\ last_event' = IF aliased
                     THEN [last_event EXCEPT !.buttons = active_event'.buttons]
                     ELSE last_event
    /\ UNCHANGED <<settings, callbacks, now, virtual, totals, rerun,
                   general,
                   concurrent_presses, delivered,
                   aliased, raised, logger, complete, threads>>

\* the calls of lines 180-184 for a Button whose state was sampled
CallsFor(the_button) ==
    LET registered ==
            callbacks[IF the_button.is_still_pressed = "True"
                      THEN "press" ELSE "release"][the_button.identifier]
    IN  [n \in 1..Len(registered) |->
            [op |-> "call", id |-> the_button.identifier, value |-> registered[n]]]

WriteFor(the_button) ==
    [op |-> "write", id |-> the_button.identifier,
     value |-> the_button.is_still_pressed]

\* virtual_output, without the test of is_ghost
virtual_output_unfiltered(the_button) ==
    <<WriteFor(the_button)>> \o CallsFor(the_button)

\* virtual_output, forwarding only a button that is still pressed
virtual_output_pressed_only(the_button) ==
    IF the_button.is_ghost # "True" /\ the_button.is_still_pressed = "True"
    THEN <<WriteFor(the_button)>> \o CallsFor(the_button)
    ELSE <<>>

\* lines 174-184: what an evaluated Button sends to the virtual device
virtual_output(the_button) ==
    IF the_button.is_ghost # "True"
    THEN <<WriteFor(the_button)>> \o CallsFor(the_button)
    ELSE <<>>

\* Device.filter_the_button run on Button `index`; `rest` are the timers
\* that stay pending
run_filter_the_button(index, rest) ==
    LET sampled == [the_buttons[index] EXCEPT
                       !.is_still_pressed =
                           Bool3(physical[the_buttons[index].identifier])]
        the_button == evaluate_button(sampled)
        sent == virtual_output(the_button)
    IN
    /\ the_buttons' = [the_buttons EXCEPT ![index] = the_button]
    /\ timers' = IF the_button.was_a_press
                 THEN rest \cup {defer(settings.latency, "end_tracking", index)}
                 ELSE rest
    /\ virtual' = IF sent # <<>>
                  THEN [virtual EXCEPT ![the_button.identifier] =
                            (the_button.is_still_pressed = "True")]
                  ELSE virtual
    /\ output' = [output EXCEPT ![index] = @ \o sent]
    /\ UNCHANGED <<settings, callbacks, now, physical, active_event, totals,
                   general,
                   concurrent_presses, delivered,
                   aliased, raised, logger, last_event, complete, threads>>

filter_the_button(index) ==
    \E t \in timers :
        /\ t.func = "filter_the_button" /\ t.arg = index /\ t.due <= now
        /\ run_filter_the_button(index, timers \ {t})
        /\ UNCHANGED rerun

\* Events.end_tracking
end_tracking(index) ==
    \E t \in timers :
        /\ t.func = "end_tracking" /\ t.arg = index /\ t.due <= now
        /\ timers' = timers \ {t}
        /\ IF ~settings.enabled
           THEN UNCHANGED <<the_buttons, totals, active_event,
                            last_event, complete, aliased>>
           ELSE /\ the_buttons' = [the_buttons EXCEPT ![index] = expire(@)]
                /\ IF get_active_presses(the_buttons') = {}
                   THEN /\ totals' = update_totals(the_buttons')
                        /\ last_event' = flush_event_last_event(the_buttons')
                        /\ complete' = flush_event_complete(the_buttons')
                        /\ active_event' = Event(now)
                        /\ aliased' = FALSE
                   ELSE UNCHANGED <<totals, active_event, last_event,
                                    complete, aliased>>
        /\ UNCHANGED <<settings, callbacks, now, physical, virtual, output, rerun,
                       general,
                       concurrent_presses, delivered, raised, logger, threads>>

\* a millisecond passes once every timer that fell due has fired, while a
\* transition may still arrive or a timer is pending
Tick(horizon) ==
    /\ now < horizon \/ timers # {}
    /\ \A t \in timers : t.due > now
    /\ now' = now + 1
    /\ UNCHANGED <<settings, callbacks, physical, virtual, the_buttons,
                   active_event, totals, timers, output, rerun,
                   general,
                   concurrent_presses, delivered,
                   aliased, raised, logger, last_event, complete, threads>>

Next ==
    \/ \E identifier \in Identifiers : callback(identifier, MaxTransitions, MaxTime)
    \/ \E index \in 1..Len(the_buttons) : filter_the_button(index)
    \/ \E index \in 1..Len(the_buttons) : end_tracking(index)
    \/ Tick(MaxTime)

Spec == Init /\ [][Next]_vars

\* ------------------------------------------- Scenario A configurations
\* max_concurrent = 1, min_separation = 10ms, strict mode off, and each
\* latency offered
InitA ==
    \E l \in LatencyChoices :
        Constructed(Settings_Buttons(TRUE, TRUE, l, 1, 10, FALSE))

NextA ==
    \/ \E identifier \in Identifiers :
            callback(identifier, MaxTransitions + 1, MaxTime + 1)
    \/ \E index \in 1..Len(the_buttons) : filter_the_button(index)
    \/ \E index \in 1..Len(the_buttons) : end_tracking(index)
    \/ Tick(MaxTime + 1)

SpecA == InitA /\ [][NextA]_vars

\* ------------------------------------------------ registered callbacks
Registered ==
    LET RECURSIVE Sum(_)
        Sum(S) == IF S = {} THEN 0
                  ELSE LET x == CHOOSE x \in S : TRUE
                       IN  Len(callbacks[x[1]][x[2]]) + Sum(S \ {x})
    IN  Sum(Directions \X Identifiers)

\* Device.on_virtual_button(btns, events)(callback), called by the custom
\* code of the plugin before any transition arrives
on_virtual_button(btns, events, handle) ==
    /\ the_buttons = <<>> /\ now = 0
    /\ Registered < MaxCallbacks
    /\ handle = Registered + 1
    /\ callbacks' = [event \in Directions |-> [btn \in Identifiers |->
                        IF event \in events /\ btn \in btns
                        THEN Append(callbacks[event][btn], handle)
                        ELSE callbacks[event][btn]]]
    /\ UNCHANGED <<settings, now, physical, virtual, the_buttons,
                   active_event, totals, timers, output, rerun,
                   general,
                   concurrent_presses, delivered,
                   aliased, raised, logger, last_event, complete, threads>>

InitCb ==
    \E f \in BOOLEAN : Constructed(Settings_Buttons(TRUE, f, 1, 1, 2, FALSE))

NextCb ==
    \/ \E btns \in (SUBSET Identifiers) \ {{}},
          events \in (SUBSET Directions) \ {{}},
          handle \in Handles : on_virtual_button(btns, events, handle)
    \/ \E identifier \in Identifiers :
            callback(identifier, MaxCbTransitions, MaxTime)
    \/ \E index \in 1..Len(the_buttons) : filter_the_button(index)
    \/ \E index \in 1..Len(the_buttons) : end_tracking(index)
    \/ Tick(MaxTime)

SpecCb == InitCb /\ [][NextCb]_vars

\* ------------------------------------- a second run of the evaluation
\* filter_the_button invoked once more on a press that has expired, at a
\* moment when no timer is pending, so that every later change of the
\* counters stems from this invocation
second_filter_the_button(index) ==
    /\ ~rerun.done
    /\ timers = {}
    /\ the_buttons[index].was_a_press
    /\ the_buttons[index].end_time # NoTime
    /\ run_filter_the_button(index, timers)
    /\ rerun' = [done |-> TRUE, index |-> index, totals |-> totals,
                 count |-> Len(the_buttons)]

NextRerun ==
    \/ \E identifier \in Identifiers :
            callback(identifier, MaxTransitions, MaxTime)
    \/ \E index \in 1..Len(the_buttons) : filter_the_button(index)
    \/ \E index \in 1..Len(the_buttons) : end_tracking(index)
    \/ \E index \in 1..Len(the_buttons) : second_filter_the_button(index)
    \/ Tick(MaxTime)

SpecRerun == Init /\ [][NextRerun]_vars

\* ------------------------------------------------------------ summaries
\* lines 260-262, with allowed in place of blocked in the numerator
summary_percentage_allowed(the_totals) ==
    LET total == the_totals.buttons.blocked.total
                    + the_totals.buttons.allowed.total
    IN  IF total > 0
        THEN Ratio(the_totals.buttons.allowed.total * 100, total)
        ELSE Ratio(0, 1)

\* lines 260-262: summary['percentage']
summary_percentage(the_totals) ==
    LET total == the_totals.buttons.blocked.total
                    + the_totals.buttons.allowed.total
    IN  IF total > 0
        THEN Ratio(the_totals.buttons.blocked.total * 100, total)
        ELSE Ratio(0, 1)

\* events.complete.list after summarize, had the flush of lines 304-310 not
\* been commented out
summarized_complete_flushed == <<>>

\* events.complete.list after summarize: line 258 only reads it
summarized_complete == complete

\* the figures of the log lines 271-283
summary_lines(the_totals, summary) ==
    [allowed |-> the_totals.buttons.allowed.total,
     blocked |-> the_totals.buttons.blocked.total,
     allowed_events |-> the_totals.events.allowed.total,
     blocked_events |-> the_totals.events.blocked.total,
     mixed_events |-> the_totals.events.mixed.total,
     elapsed_time |-> summary.elapsed_time,
     percentage |-> Rounded3(summary.percentage),
     per_minute |-> Rounded3(summary.per_minute)]

\* Logger.summarize, run by the summary key; elapsed_time is the number of
\* whole seconds between summary['start_time'] and time.localtime()
summarize(elapsed_time) ==
    /\ Len(logger.lines) < MaxSummaries
    /\ elapsed_time >= logger.summary.elapsed_time
    /\ IF ~logger.enabled
       THEN /\ logger' = logger
            /\ raised' = None
       ELSE LET percentage == summary_percentage(totals)
                blocked == totals.buttons.blocked.total
                summary == [percentage |-> percentage,
                            elapsed_time |-> elapsed_time,
                            per_minute |-> Ratio(blocked * 60, elapsed_time),
                            per_hour |-> Ratio(blocked * 60 * 60, elapsed_time)]
            IN  IF elapsed_time = 0
                THEN \* line 264 divides by elapsed_time
                     /\ logger' = [logger EXCEPT
                                      !.summary.percentage = percentage,
                                      !.summary.elapsed_time = elapsed_time]
                     /\ raised' = "ZeroDivisionError"
                ELSE /\ logger' = [logger EXCEPT
                                      !.summary = summary,
                                      !.lines = Append(@, summary_lines(totals, summary))]
                     /\ raised' = None
    /\ complete' = summarized_complete
    /\ UNCHANGED <<settings, callbacks, now, physical, virtual, the_buttons,
                   active_event, totals, timers, output, rerun,
                   general,
                   concurrent_presses, delivered, aliased, last_event, threads>>

\* events.totals of a session that has so far recorded `singles` groups of
\* button 1 alone, legitimate, and `pairs` groups of buttons 1 and 2, both
\* ghost
RECURSIVE Recorded(_, _)
Recorded(singles, pairs) ==
    IF singles > 0
    THEN TotalsAfter(Recorded(singles - 1, pairs), "allowed", {1}, {})
    ELSE IF pairs > 0
         THEN TotalsAfter(Recorded(0, pairs - 1), "blocked", {}, {1, 2})
         ELSE InitTotals

\* a Device between two groups, later in its session: strict mode,
\* max_concurrent = 1, latency 1ms, min_separation 2ms, every choice of
\* Settings.logging and Settings.debug
InitSummary ==
    \E logging \in BOOLEAN, debug \in BOOLEAN,
       singles \in 0..MaxSingles, pairs \in 0..MaxPairs :
        /\ settings = Settings_Buttons(TRUE, TRUE, 1, 1, 2, TRUE)
        /\ callbacks = [d \in Directions |-> [b \in Identifiers |-> <<>>]]
        /\ now = 0
        /\ physical = [b \in Identifiers |-> FALSE]
        /\ virtual = [b \in Identifiers |-> FALSE]
        /\ the_buttons = <<>>
        /\ active_event = Event(0)
        /\ totals = Recorded(singles, pairs)
        /\ timers = {}
        /\ output = <<>>
        /\ rerun = [done |-> FALSE, index |-> 0, totals |-> InitTotals, count |-> 0]
        /\ general = [logging |-> logging, debug |-> debug]
        /\ concurrent_presses = {}
        /\ delivered = <<>>
        /\ logger = Logger(logging)
        /\ last_event = NoEvent
        /\ complete = <<>>
        /\ threads = {}
        /\ raised = None
        /\ aliased = FALSE

NextSummary ==
    \/ \E identifier \in Identifiers :
            callback(identifier, MaxSummaryTransitions, 0)
    \/ \E index \in 1..Len(the_buttons) : filter_the_button(index)
    \/ \E index \in 1..Len(the_buttons) : end_tracking(index)
    \/ Tick(0)
    \/ \E elapsed_time \in 0..MaxElapsed : summarize(elapsed_time)

SpecSummary == InitSummary /\ [][NextSummary]_vars

\* ------------------------------------------- end_tracking, step by step
\* Every threading.Timer runs its function in a thread of its own, and the
\* decorated callback runs in the thread of the input event: the statements
\* of one end_tracking call interleave with arrivals, evaluations and other
\* end_tracking calls.  Each statement is one step.

\* lines 368-372: the timer fires and the Button is flagged as expired
end_tracking_expire(index) ==
    \E t \in timers :
        /\ t.func = "end_tracking" /\ t.arg = index /\ t.due <= now
        /\ timers' = timers \ {t}
        /\ IF ~settings.enabled
           THEN UNCHANGED <<the_buttons, threads>>
           ELSE /\ the_buttons' = [the_buttons EXCEPT ![index] = expire(@)]
                /\ threads' = threads \cup {[arg |-> index, pc |-> "check"]}
        /\ UNCHANGED <<settings, callbacks, now, physical, virtual,
                       active_event, totals, output, rerun,
                       general,
                       concurrent_presses, delivered,
                       aliased, raised, logger, last_event, complete>>

\* line 375: the test for the end of the ghosting event
end_tracking_check(index) ==
    \E thread \in threads :
        /\ thread.arg = index /\ thread.pc = "check"
        /\ threads' = IF get_active_presses(the_buttons) = {}
                      THEN (threads \ {thread})
                               \cup {[thread EXCEPT !.pc = "update_totals"]}
                      ELSE threads \ {thread}
        /\ UNCHANGED <<settings, callbacks, now, physical, virtual,
                       the_buttons, active_event, totals, timers, output,
                       rerun, general,
                       concurrent_presses, delivered,
                       aliased, raised, logger, last_event, complete>>

\* line 377
end_tracking_update_totals(index) ==
    \E thread \in threads :
        /\ thread.arg = index /\ thread.pc = "update_totals"
        /\ totals' = update_totals(the_buttons)
        /\ threads' = (threads \ {thread})
                          \cup {[thread EXCEPT !.pc = "flush_event"]}
        /\ UNCHANGED <<settings, callbacks, now, physical, virtual,
                       the_buttons, active_event, timers, output,
                       rerun, general,
                       concurrent_presses, delivered,
                       aliased, raised, logger, last_event, complete>>

\* lines 380-383: the event is flushed and the active Event reinitialized
end_tracking_reinitialize(index) ==
    \E thread \in threads :
        /\ thread.arg = index /\ thread.pc = "flush_event"
        /\ last_event' = flush_event_last_event(the_buttons)
        /\ complete' = flush_event_complete(the_buttons)
        /\ active_event' = Event(now)
        /\ aliased' = FALSE
        /\ threads' = threads \ {thread}
        /\ UNCHANGED <<settings, callbacks, now, physical, virtual,
                       the_buttons, totals, timers, output,
                       rerun, general,
                       concurrent_presses, delivered, raised, logger>>

\* the calls in flight return within the millisecond in which they started
TickThreads(horizon) ==
    /\ threads = {}
    /\ Tick(horizon)

NextThreads ==
    \/ \E identifier \in Identifiers :
            callback(identifier, MaxTransitions, MaxTime + 1)
    \/ \E index \in 1..Len(the_buttons) : filter_the_button(index)
    \/ \E index \in 1..Len(the_buttons) : end_tracking_expire(index)
    \/ \E index \in 1..Len(the_buttons) : end_tracking_check(index)
    \/ \E index \in 1..Len(the_buttons) : end_tracking_update_totals(index)
    \/ \E index \in 1..Len(the_buttons) : end_tracking_reinitialize(index)
    \/ TickThreads(MaxTime + 1)

SpecThreads == Init /\ [][NextThreads]_vars

\* the same steps with the filter on and a Wait Time of 1 ms, for longer
\* sequences of transitions
InitClose == Constructed(Settings_Buttons(TRUE, TRUE, 1, 1, 0, FALSE))

NextThreadsClose ==
    \/ \E identifier \in Identifiers :
            callback(identifier, MaxCloseTransitions, MaxTime + 1)
    \/ \E index \in 1..Len(the_buttons) : filter_the_button(index)
    \/ \E index \in 1..Len(the_buttons) : end_tracking_expire(index)
    \/ \E index \in 1..Len(the_buttons) : end_tracking_check(index)
    \/ \E index \in 1..Len(the_buttons) : end_tracking_update_totals(index)
    \/ \E index \in 1..Len(the_buttons) : end_tracking_reinitialize(index)
    \/ TickThreads(MaxTime + 1)

SpecThreadsClose == InitClose /\ [][NextThreadsClose]_vars

\* ------------------------------------------------- failing device I/O
\* Device.filter_the_button when the read of the physical button (line 163)
\* or the write of the virtual button (line 176) raises: nothing in the
\* function or in defer catches the exception, which ends the Timer thread
failed_filter_the_button(index, failure) ==
    \E t \in timers :
        /\ t.func = "filter_the_button" /\ t.arg = index /\ t.due <= now
        /\ IF failure = "read"
           THEN /\ timers' = timers \ {t}
                /\ UNCHANGED the_buttons
           ELSE LET sampled == [the_buttons[index] EXCEPT
                                   !.is_still_pressed =
                                       Bool3(physical[the_buttons[index].identifier])]
                    the_button == evaluate_button(sampled)
                IN  /\ the_button.is_ghost # "True"
                    /\ the_buttons' = [the_buttons EXCEPT ![index] = the_button]
                    /\ timers' =
                          IF the_button.was_a_press
                          THEN (timers \ {t}) \cup
                                  {defer(settings.latency, "end_tracking", index)}
                          ELSE timers \ {t}
        /\ UNCHANGED <<settings, callbacks, now, physical, virtual,
                       active_event, totals, output, rerun,
                       general,
                       concurrent_presses, delivered,
                       aliased, raised, logger, last_event, complete, threads>>

NextIO ==
    \/ \E identifier \in Identifiers :
            callback(identifier, MaxTransitions, MaxTime)
    \/ \E index \in 1..Len(the_buttons) : filter_the_button(index)
    \/ \E index \in 1..Len(the_buttons), failure \in {"read", "write"} :
            failed_filter_the_button(index, failure)
    \/ \E index \in 1..Len(the_buttons) : end_tracking(index)
    \/ Tick(MaxTime)

SpecIO == Init /\ [][NextIO]_vars

\* ------------------------------------------- unchecked configurations
\* Settings.Buttons.__init__ stores whatever it is given, and Device.__init__
\* reads none of the values: every integer is accepted for latency,
\* max_concurrent and min_separation.  The values offered here reach below
\* zero; a Timer with a negative interval fires at once.
OfferedValues == -1..1

InitOffered ==
    \E latency \in OfferedValues, max_concurrent \in OfferedValues,
       min_separation \in OfferedValues, is_strict \in BOOLEAN :
        Constructed(Settings_Buttons(TRUE, TRUE, latency, max_concurrent,
                                     min_separation, is_strict))

SpecOffered == InitOffered /\ [][Next]_vars

\* ------------------------------------------------- removal and expiry
\* a dict without the key k
DictDel(d, k) == [x \in (DOMAIN d) \ {k} |-> d[x]]

\* Event.remove_button on the Event that `target` names (the active event
\* or events.last_event), for a Button of the given identifier: `del` of a
\* key the dict does not hold raises KeyError
remove_button(target, identifier) ==
    LET self == IF target = "active_event" THEN active_event ELSE last_event
        found == identifier \in DOMAIN self.buttons
        buttons == DictDel(self.buttons, identifier)
    IN
    /\ target = "last_event" => last_event # NoEvent
    /\ raised' = IF found THEN None ELSE "KeyError"
    /\ active_event' = IF found /\ (target = "active_event" \/ aliased)
                       THEN [active_event EXCEPT !.buttons = buttons]
                       ELSE active_event
    /\ last_event' = IF found /\ (target = "last_event" \/ aliased)
                     THEN [last_event EXCEPT !.buttons = buttons]
                     ELSE last_event
    /\ UNCHANGED <<settings, callbacks, now, physical, virtual, the_buttons,
                   totals, timers, output, rerun, general,
                   concurrent_presses, delivered, logger,
                   complete, threads, aliased>>

\* EventList.remove_event on events.complete, for an Event of the given id
remove_event(id) ==
    /\ IF id \in DOMAIN complete
       THEN /\ complete' = DictDel(complete, id)
            /\ raised' = None
       ELSE /\ complete' = complete
            /\ raised' = "KeyError"
    /\ UNCHANGED <<settings, callbacks, now, physical, virtual, the_buttons,
                   active_event, totals, timers, output, rerun, general,
                   concurrent_presses, delivered, aliased,
                   logger, last_event, threads>>

\* Button.expire called on a Button that has expired already
expire_again(index) ==
    /\ the_buttons[index].end_time # NoTime
    /\ the_buttons' = [the_buttons EXCEPT ![index] = expire(@)]
    /\ raised' = None
    /\ UNCHANGED <<settings, callbacks, now, physical, virtual,
                   active_event, totals, timers, output, rerun, general,
                   concurrent_presses, delivered, aliased,
                   logger, last_event, complete, threads>>

\* a Device in debug mode, which enters the allowed events in
\* events.complete
InitRemoval ==
    \E the_settings \in {Settings_Buttons(TRUE, TRUE, 1, 1, 2, TRUE)} :
        /\ settings = the_settings
        /\ callbacks = [d \in Directions |-> [b \in Identifiers |-> <<>>]]
        /\ now = 0
        /\ physical = [b \in Identifiers |-> FALSE]
        /\ virtual = [b \in Identifiers |-> FALSE]
        /\ the_buttons = <<>>
        /\ active_event = Event(0)
        /\ totals = InitTotals
        /\ timers = {}
        /\ output = <<>>
        /\ rerun = [done |-> FALSE, index |-> 0, totals |-> InitTotals,
                    count |-> 0]
        /\ general = [logging |-> TRUE, debug |-> TRUE]
        /\ concurrent_presses = {}
        /\ delivered = <<>>
        /\ logger = Logger(TRUE)
        /\ last_event = NoEvent
        /\ complete = <<>>
        /\ threads = {}
        /\ raised = None
        /\ aliased = FALSE

NextRemoval ==
    \/ \E identifier \in Identifiers :
            callback(identifier, MaxTransitions, MaxTime)
    \/ \E index \in 1..Len(the_buttons) : filter_the_button(index)
    \/ \E index \in 1..Len(the_buttons) : end_tracking(index)
    \/ Tick(MaxTime)
    \/ \E identifier \in Identifiers :
            remove_button("active_event", identifier)
    \/ \E id \in 0..now : remove_event(id)
    \/ \E index \in 1..Len(the_buttons) : expire_again(index)

SpecRemoval == InitRemoval /\ [][NextRemoval]_vars

\* ------------------------------------------------ initialize_inputs
\* the loop of Device.initialize_buttons from button `btn` on: `value` is
\* read from the physical device only while it is None, and it is a
\* variable of the function, not of one iteration
RECURSIVE initialize_buttons(_, _, _)
initialize_buttons(btn, value, vjoy) ==
    IF btn > NumButtons THEN vjoy
    ELSE LET read == IF value = None THEN Bool3(physical[btn]) ELSE value
         IN  initialize_buttons(btn + 1, read,
                                [vjoy EXCEPT ![btn] = (read = "True")])

\* Device.initialize_inputs, as initialize_all_inputs calls it after a
\* switch of mode: start_at_zero when the new mode is not the device's
initialize_inputs(start_at_zero) ==
    /\ settings.enabled
    /\ virtual' = initialize_buttons(1, IF start_at_zero THEN "False" ELSE None,
                                     virtual)
    /\ UNCHANGED <<settings, callbacks, now, physical, the_buttons,
                   active_event, totals, timers, output, rerun, general,
                   concurrent_presses, delivered, aliased,
                   logger, last_event, complete, threads, raised>>

NextMode ==
    \/ \E identifier \in Identifiers :
            callback(identifier, MaxTransitions, MaxTime)
    \/ \E index \in 1..Len(the_buttons) : filter_the_button(index)
    \/ \E index \in 1..Len(the_buttons) : end_tracking(index)
    \/ Tick(MaxTime)
    \/ \E start_at_zero \in BOOLEAN : initialize_inputs(start_at_zero)

SpecMode == Init /\ [][NextMode]_vars

\* ------------------------------------------------------------ snapshots
\* Event.clone_event called on the active event, the clone kept as
\* events.last_event (as line 575 keeps it)
clone_active_event ==
    /\ last_event' = clone_event(active_event)
    /\ aliased' = clone_event_buttons(active_event).same
    /\ UNCHANGED <<settings, callbacks, now, physical, virtual, the_buttons,
                   active_event, totals, timers, output, rerun, general,
                   concurrent_presses, delivered,
                   logger, complete, threads, raised>>

InitClone == Constructed(Settings_Buttons(TRUE, TRUE, 1, 1, 2, TRUE))

NextClone ==
    \/ \E identifier \in Identifiers :
            callback(identifier, MaxCloneTransitions, 0)
    \/ \E index \in 1..Len(the_buttons) : filter_the_button(index)
    \/ \E index \in 1..Len(the_buttons) : end_tracking(index)
    \/ Tick(0)
    \/ clone_active_event
    \/ \E target \in {"active_event", "last_event"}, identifier \in Identifiers :
            remove_button(target, identifier)

SpecClone == InitClone /\ [][NextClone]_vars

\* ------------------------------------------------------ debug logging
\* Event.threshold, set by Event.__init__ from the global settings (ms)
threshold == settings.latency * 4

\* Event.is_event_within_threshold, which get_flag calls from flush_event
\* when debugging and events.last_event is set
is_event_within_threshold(self, the_last_event) ==
    LET delta == self.start_time - the_last_event.start_time
    IN  IF delta > 0 THEN delta < threshold ELSE FALSE

\* a Device in debug mode, which logs and keeps every flushed event
InitDebug ==
    \E the_settings \in {Settings_Buttons(TRUE, TRUE, 1, 1, 2, TRUE)} :
        /\ settings = the_settings
        /\ callbacks = [d \in Directions |-> [b \in Identifiers |-> <<>>]]
        /\ now = 0
        /\ physical = [b \in Identifiers |-> FALSE]
        /\ virtual = [b \in Identifiers |-> FALSE]
        /\ the_buttons = <<>>
        /\ active_event = Event(0)
        /\ totals = InitTotals
        /\ timers = {}
        /\ output = <<>>
        /\ rerun = [done |-> FALSE, index |-> 0, totals |-> InitTotals,
                    count |-> 0]
        /\ general = [logging |-> TRUE, debug |-> TRUE]
        /\ concurrent_presses = {}
        /\ delivered = <<>>
        /\ logger = Logger(TRUE)
        /\ last_event = NoEvent
        /\ complete = <<>>
        /\ threads = {}
        /\ raised = None
        /\ aliased = FALSE

SpecDebug == InitDebug /\ [][NextA]_vars

\* ------------------------------------------------------ fair scheduling
\* Every threading.Timer that was started fires and its function runs to
\* its end, and time passes; nothing obliges a transition to arrive.
SpecFair ==
    /\ InitCb /\ [][Next]_vars
    /\ WF_vars(\E index \in 1..Len(the_buttons) : filter_the_button(index))
    /\ WF_vars(\E index \in 1..Len(the_buttons) : end_tracking(index))
    /\ WF_vars(Tick(MaxTime))

\* ------------------------------------------- the set-based earlier version
\* src/ghost_input_filter.py.  Here `settings` holds the fields of the
\* FilteredDevice the filter reads, general.logging is debugger.enabled, and
\* time is counted in ticks (tick_len).

\* FilteredDevice.__init__: button_timespan is split into the wait before
\* the evaluation (ceil of its half) and the wait after it (floor)
FilteredDevice(button_filtering, button_timespan, button_threshold) ==
    [button_filtering |-> button_filtering,
     button_timespan  |-> IF button_filtering
                          THEN <<(button_timespan + 1) \div 2,
                                 button_timespan \div 2>>
                          ELSE <<0, 0>>,
     button_threshold |-> button_threshold]

\* the button event Joystick Gremlin hands to the callback, with what the
\* evaluation of it read, decided and wrote
GremlinEvent(identifier, is_pressed) ==
    [identifier    |-> identifier,
     is_pressed    |-> is_pressed,
     still_pressed |-> None,
     monitored     |-> -1,
     is_ghost      |-> None,
     written       |-> None,
     ended         |-> FALSE]

start_button_monitoring(btn_id) == concurrent_presses \cup {btn_id}

\* end_button_monitoring that leaves the button in the set
end_button_monitoring_kept(btn_id) == concurrent_presses

end_button_monitoring(btn_id) == concurrent_presses \ {btn_id}

trigger_the_button(event, new_value) ==
    [virtual EXCEPT ![event.identifier] = new_value]

FilteredConfigurations ==
    {FilteredDevice(f, t, n) :
        f \in BOOLEAN, t \in 1..MaxTimespan, n \in 0..MaxThreshold}

\* the script right after it constructed the Debugger and the FilteredDevice
InitFiltered ==
    \E device \in FilteredConfigurations, enabled \in BOOLEAN :
        /\ settings = device
        /\ callbacks = [d \in Directions |-> [b \in Identifiers |-> <<>>]]
        /\ now = 0
        /\ physical = [b \in Identifiers |-> FALSE]
        /\ virtual = [b \in Identifiers |-> FALSE]
        /\ the_buttons = <<>>
        /\ active_event = Event(0)
        /\ totals = InitTotals
        /\ timers = {}
        /\ output = <<>>
        /\ rerun = [done |-> FALSE, index |-> 0, totals |-> InitTotals, count |-> 0]
        /\ general = [logging |-> enabled, debug |-> FALSE]
        /\ concurrent_presses = {}
        /\ delivered = <<>>
        /\ logger = Logger(enabled)
        /\ last_event = NoEvent
        /\ complete = <<>>
        /\ threads = {}
        /\ raised = None
        /\ aliased = FALSE

\* the decorated callback of initialize_buttons
FilteredDevice_callback(identifier) ==
    LET event == GremlinEvent(identifier, ~physical[identifier])
        index == Len(delivered) + 1
    IN
    /\ Len(delivered) < MaxFilteredTransitions
    /\ now <= MaxFilteredTime
    /\ physical' = [physical EXCEPT ![identifier] = event.is_pressed]
    /\ concurrent_presses' = IF event.is_pressed
                             THEN start_button_monitoring(identifier)
                             ELSE concurrent_presses
    /\ delivered' = Append(delivered, event)
    /\ timers' = timers \cup
            {defer(settings.button_timespan[1], "filter_the_button", index)}
    /\ UNCHANGED <<settings, callbacks, now, virtual, the_buttons,
                   active_event, totals, output, rerun, general, aliased,
                   raised, logger, last_event, complete, threads>>

\* FilteredDevice.filter_the_button, run by its timer
FilteredDevice_filter_the_button(index) ==
    \E t \in timers :
        /\ t.func = "filter_the_button" /\ t.arg = index /\ t.due <= now
        /\ LET event == delivered[index]
               still_pressed == physical[event.identifier]
               is_ghost ==
                   /\ settings.button_filtering
                   /\ Cardinality(concurrent_presses)
                          >= settings.button_threshold
                   /\ ~still_pressed
               \* Debugger.evaluate_ghost divides by len(concurrent_presses)
               fails == /\ event.is_pressed /\ is_ghost /\ general.logging
                        /\ concurrent_presses = {}
               legitimate == ~is_ghost /\ still_pressed
               evaluated == [event EXCEPT
                                !.still_pressed = Bool3(still_pressed),
                                !.monitored = Cardinality(concurrent_presses),
                                !.is_ghost = Bool3(is_ghost)]
           IN
           IF event.is_pressed
           THEN /\ raised' = IF fails THEN "ZeroDivisionError" ELSE None
                /\ virtual' = IF is_ghost THEN virtual
                              ELSE trigger_the_button(event, still_pressed)
                /\ concurrent_presses' =
                        IF legitimate
                        THEN end_button_monitoring(event.identifier)
                        ELSE concurrent_presses
                /\ timers' = IF legitimate \/ fails
                             THEN timers \ {t}
                             ELSE (timers \ {t}) \cup
                                    {defer(settings.button_timespan[2],
                                           "end_button_monitoring", index)}
                /\ delivered' = [delivered EXCEPT ![index] =
                        [evaluated EXCEPT
                            !.written = IF is_ghost THEN None
                                        ELSE Bool3(still_pressed),
                            !.ended = legitimate]]
           ELSE /\ raised' = None
                /\ virtual' = trigger_the_button(event, still_pressed)
                /\ concurrent_presses' = concurrent_presses
                /\ timers' = timers \ {t}
                /\ delivered' = [delivered EXCEPT ![index] =
                        [evaluated EXCEPT !.written = Bool3(still_pressed)]]
        /\ UNCHANGED <<settings, callbacks, now, physical, the_buttons,
                       active_event, totals, output, rerun, general, aliased,
                       logger, last_event, complete, threads>>

\* FilteredDevice.end_button_monitoring, run by its timer
deferred_end_button_monitoring(index) ==
    \E t \in timers :
        /\ t.func = "end_button_monitoring" /\ t.arg = index /\ t.due <= now
        /\ timers' = timers \ {t}
        /\ concurrent_presses' =
                end_button_monitoring(delivered[index].identifier)
        /\ delivered' = [delivered EXCEPT ![index].ended = TRUE]
        /\ UNCHANGED <<settings, callbacks, now, physical, virtual,
                       the_buttons, active_event, totals, output, rerun,
                       general, aliased, raised, logger, last_event,
                       complete, threads>>

NextFiltered ==
    \/ \E identifier \in Identifiers : FilteredDevice_callback(identifier)
    \/ \E index \in 1..Len(delivered) : FilteredDevice_filter_the_button(index)
    \/ \E index \in 1..Len(delivered) : deferred_end_button_monitoring(index)
    \/ Tick(MaxFilteredTime)

SpecFiltered == InitFiltered /\ [][NextFiltered]_vars

\* --------------------------------------- the counter-based earlier version
\* src/ghost_inputs.py.  `settings` holds the fields of its FilteredDevice,
\* concurrent_presses is an integer, and time is counted in ticks.  The
\* callbacks and the timers run on threads of their own, and
\* `self.concurrent_presses += 1` reads the attribute and writes it back in
\* two steps, between which another thread may run.  The decorated
\* callbacks are taken one after the other; each threading.Timer is a thread.

CounterDevice(button_filtering, button_timespan, button_threshold) ==
    [button_filtering |-> button_filtering,
     button_timespan  |-> IF button_filtering
                          THEN <<(button_timespan + 1) \div 2,
                                 button_timespan \div 2>>
                          ELSE <<0, 0>>,
     button_threshold |-> button_threshold]

CounterConfigurations ==
    {CounterDevice(f, 1, n) : f \in BOOLEAN, n \in 1..MaxThreshold}

InitCounter ==
    \E device \in CounterConfigurations :
        /\ settings = device
        /\ callbacks = [d \in Directions |-> [b \in Identifiers |-> <<>>]]
        /\ now = 0
        /\ physical = [b \in Identifiers |-> FALSE]
        /\ virtual = [b \in Identifiers |-> FALSE]
        /\ the_buttons = <<>>
        /\ active_event = Event(0)
        /\ totals = InitTotals
        /\ timers = {}
        /\ output = <<>>
        /\ rerun = [done |-> FALSE, index |-> 0, totals |-> InitTotals, count |-> 0]
        /\ general = [logging |-> TRUE, debug |-> FALSE]
        /\ concurrent_presses = 0
        /\ delivered = <<>>
        /\ logger = Logger(TRUE)
        /\ last_event = NoEvent
        /\ complete = <<>>
        /\ threads = {}
        /\ raised = None
        /\ aliased = FALSE

\* the decorated callback up to the read of `self.concurrent_presses += 1`
\* (a release has no more to do than to start its timer)
ghost_inputs_callback(identifier) ==
    LET event == GremlinEvent(identifier, ~physical[identifier])
        index == Len(delivered) + 1
    IN
    /\ Len(delivered) < MaxCounterTransitions
    /\ now <= MaxTime
    /\ \A thread \in threads : thread.pc # "start_monitoring"
    /\ physical' = [physical EXCEPT ![identifier] = event.is_pressed]
    /\ delivered' = Append(delivered, event)
    /\ IF event.is_pressed
       THEN /\ threads' = threads \cup
                    {[pc |-> "start_monitoring", arg |-> index,
                      read |-> concurrent_presses]}
            /\ timers' = timers
       ELSE /\ threads' = threads
            /\ timers' = timers \cup
                    {defer(settings.button_timespan[1],
                           "filter_the_button", index)}
    /\ UNCHANGED <<settings, callbacks, now, virtual, the_buttons,
                   active_event, totals, output, rerun, general,
                   concurrent_presses, aliased, raised, logger, last_event,
                   complete>>

\* the write of `self.concurrent_presses += 1`, and the rest of the callback
start_monitoring(index) ==
    \E thread \in threads :
        /\ thread.pc = "start_monitoring" /\ thread.arg = index
        /\ concurrent_presses' = thread.read + 1
        /\ threads' = threads \ {thread}
        /\ timers' = timers \cup
                {defer(settings.button_timespan[1], "filter_the_button", index)}
        /\ UNCHANGED <<settings, callbacks, now, physical, virtual,
                       the_buttons, active_event, totals, output, rerun,
                       general, delivered, aliased, raised, logger,
                       last_event, complete>>

\* FilteredDevice.filter_the_button of ghost_inputs.py, run by its timer
ghost_inputs_filter_the_button(index) ==
    \E t \in timers :
        /\ t.func = "filter_the_button" /\ t.arg = index /\ t.due <= now
        /\ LET event == delivered[index]
               is_ghost == concurrent_presses >= settings.button_threshold
               blocked == event.is_pressed /\ is_ghost
                              /\ settings.button_filtering
               still_pressed == physical[event.identifier]
           IN
           /\ virtual' = IF blocked THEN virtual
                         ELSE [virtual EXCEPT
                                  ![event.identifier] = still_pressed]
           /\ delivered' = [delivered EXCEPT ![index] =
                    [@ EXCEPT !.still_pressed = Bool3(still_pressed),
                              !.monitored = concurrent_presses,
                              !.is_ghost = Bool3(is_ghost),
                              !.written = IF blocked THEN None
                                          ELSE Bool3(still_pressed)]]
           /\ timers' = IF event.is_pressed
                        THEN (timers \ {t}) \cup
                                {defer(settings.button_timespan[2],
                                       "end_monitoring", index)}
                        ELSE timers \ {t}
        /\ UNCHANGED <<settings, callbacks, now, physical, the_buttons,
                       active_event, totals, output, rerun, general,
                       concurrent_presses, aliased, raised, logger,
                       last_event, complete, threads>>

\* the timer of end_monitoring fires: the read of
\* `self.concurrent_presses -= 1`
end_monitoring_read(index) ==
    \E t \in timers :
        /\ t.func = "end_monitoring" /\ t.arg = index /\ t.due <= now
        /\ timers' = timers \ {t}
        /\ threads' = threads \cup
                {[pc |-> "end_monitoring", arg |-> index,
                  read |-> concurrent_presses]}
        /\ UNCHANGED <<settings, callbacks, now, physical, virtual,
                       the_buttons, active_event, totals, output, rerun,
                       general, concurrent_presses, delivered, aliased,
                       raised, logger, last_event, complete>>

\* the write of `self.concurrent_presses -= 1`
end_monitoring(index) ==
    \E thread \in threads :
        /\ thread.pc = "end_monitoring" /\ thread.arg = index
        /\ concurrent_presses' = thread.read - 1
        /\ threads' = threads \ {thread}
        /\ delivered' = [delivered EXCEPT ![index].ended = TRUE]
        /\ UNCHANGED <<settings, callbacks, now, physical, virtual,
                       the_buttons, active_event, totals, timers, output,
                       rerun, general, aliased, raised, logger, last_event,
                       complete>>

NextCounter ==
    \/ \E identifier \in Identifiers : ghost_inputs_callback(identifier)
    \/ \E index \in 1..Len(delivered) : start_monitoring(index)
    \/ \E index \in 1..Len(delivered) : ghost_inputs_filter_the_button(index)
    \/ \E index \in 1..Len(delivered) : end_monitoring_read(index)
    \/ \E index \in 1..Len(delivered) : end_monitoring(index)
    \/ TickThreads(MaxTime)

SpecCounter == InitCounter /\ [][NextCounter]_vars

TypeOK ==
    /\ now >= 0
    /\ Len(output) = Len(the_buttons)

\* ---------------------------------------------------------------- claims
Indices == 1..Len(the_buttons)

Evaluated(i) == the_buttons[i].trigger_time # NoTime

\* the step is the (first) evaluation of Button i
Evaluates(i) ==
    /\ the_buttons[i].trigger_time = NoTime
    /\ the_buttons'[i].trigger_time # NoTime

\* the members of the active group other than `self` by identifier
Others(self) ==
    {active_event.buttons[k] : k \in DOMAIN active_event.buttons \ {self.identifier}}

\* C1: a transition classified ghost writes nothing to the virtual button
\* and calls no registered callback; whatever reached the virtual output
\* came from a transition classified legitimate.
C1_GhostNeverForwarded ==
    \A i \in Indices :
        /\ the_buttons[i].is_ghost = "True" => output[i] = <<>>
        /\ output[i] # <<>> => the_buttons[i].is_ghost = "False"

C1_Witness ==
    \E i \in Indices :
        /\ Evaluated(i) /\ the_buttons[i].is_ghost = "True"
        /\ the_buttons[i].was_a_press

\* C2: at its evaluation a press is classified ghost iff filtering is on,
\* the number of non-expired transitions of the active group exceeds
\* max_concurrent, the press is within min_separation of another member,
\* and strict mode is on or the button is no longer held.
C2_GhostPressIffActiveCount ==
    [][\A i \in Indices :
        (Evaluates(i) /\ the_buttons[i].was_a_press) =>
            ((the_buttons'[i].is_ghost = "True") <=>
                /\ settings.filter
                /\ Cardinality(get_active_presses(the_buttons))
                       > settings.max_concurrent
                /\ \E j \in Others(the_buttons[i]) :
                       Abs(the_buttons[i].start_time - the_buttons[j].start_time)
                           < settings.min_separation
                /\ (settings.is_strict
                       \/ ~physical[the_buttons[i].identifier]))]_vars

\* C3: with filtering on, a release is classified ghost iff the press of
\* the same identifier in the active group was classified ghost.
C3_ReleaseInheritsGhost ==
    [][\A i \in Indices :
        (Evaluates(i) /\ ~the_buttons[i].was_a_press /\ settings.filter) =>
            ((the_buttons'[i].is_ghost = "True") <=>
                /\ the_buttons[i].identifier \in DOMAIN active_event.buttons
                /\ the_buttons[active_event.buttons[the_buttons[i].identifier]]
                       .is_ghost = "True")]_vars

\* C4: with filtering off every evaluated transition is classified
\* legitimate and its evaluation wrote the virtual button.
C4_PassThrough ==
    ~settings.filter =>
        \A i \in Indices :
            Evaluated(i) =>
                /\ the_buttons[i].is_ghost = "False"
                /\ output[i] # <<>>
                /\ output[i][1] = WriteFor(the_buttons[i])

C4_Witness ==
    /\ ~settings.filter
    /\ \E i, j \in Indices :
        /\ Evaluated(i) /\ the_buttons[i].was_a_press
        /\ the_buttons[i].is_still_pressed = "False"
        /\ Evaluated(j) /\ ~the_buttons[j].was_a_press

\* C5: a press evaluated while the active group holds at most
\* max_concurrent transitions is classified legitimate, whatever the gaps
\* between the members, the held state and strict mode.
C5_NoGhostAtOrBelowMaxConcurrent ==
    [][\A i \in Indices :
        (/\ Evaluates(i) /\ the_buttons[i].was_a_press
         /\ Cardinality(DOMAIN active_event.buttons) <= settings.max_concurrent)
            => the_buttons'[i].is_ghost = "False"]_vars

\* two members closer than min_separation, the evaluated one released, in a
\* group of max_concurrent members
C5_Witness ==
    \E i \in Indices :
        /\ settings.filter /\ the_buttons[i].was_a_press
        /\ the_buttons[i].trigger_time = now /\ the_buttons[i].end_time = NoTime
        /\ the_buttons[i].is_still_pressed = "False"
        /\ the_buttons[i].is_ghost = "False"
        /\ Cardinality(DOMAIN active_event.buttons) = 2
        /\ settings.max_concurrent = 2
        /\ is_button_within_threshold(the_buttons[i])

IsMember(i) ==
    /\ the_buttons[i].identifier \in DOMAIN active_event.buttons
    /\ active_event.buttons[the_buttons[i].identifier] = i

\* C6 (as stated): in strict mode with max_concurrent = 1, two presses on
\* distinct buttons created closer together than min_separation and both
\* still held at their evaluations are both classified ghost, and neither
\* sets the virtual button to pressed.
C6_StrictPairGhost ==
    (settings.filter /\ settings.is_strict /\ settings.max_concurrent = 1) =>
        \A i, j \in Indices :
            (/\ the_buttons[i].was_a_press /\ the_buttons[j].was_a_press
             /\ the_buttons[i].identifier # the_buttons[j].identifier
             /\ Abs(the_buttons[i].start_time - the_buttons[j].start_time)
                    < settings.min_separation
             /\ Evaluated(i) /\ Evaluated(j)
             /\ the_buttons[i].is_still_pressed = "True"
             /\ the_buttons[j].is_still_pressed = "True")
            => /\ the_buttons[i].is_ghost = "True"
               /\ the_buttons[j].is_ghost = "True"
               /\ output[i] = <<>> /\ output[j] = <<>>

\* C6 (amended): in strict mode with max_concurrent = 1, a press that is
\* still held at its evaluation, and that is then a member of the active
\* group together with a press on another button created closer than
\* min_separation to it, is classified ghost and writes nothing; hence two
\* such presses that are both members at each other's evaluation are both
\* ghost.
C6_StrictPairGhostInGroup ==
    [][\A i \in Indices :
        (/\ settings.filter /\ settings.is_strict /\ settings.max_concurrent = 1
         /\ Evaluates(i) /\ the_buttons[i].was_a_press /\ IsMember(i)
         /\ physical[the_buttons[i].identifier]
         /\ \E j \in Others(the_buttons[i]) :
                Abs(the_buttons[i].start_time - the_buttons[j].start_time)
                    < settings.min_separation)
        => /\ the_buttons'[i].is_ghost = "True"
           /\ output'[i] = <<>>
           /\ virtual' = virtual]_vars

C6_Witness ==
    /\ settings.filter /\ settings.is_strict /\ settings.max_concurrent = 1
    /\ \E i, j \in Indices :
        /\ the_buttons[i].identifier # the_buttons[j].identifier
        /\ IsMember(i) /\ IsMember(j)
        /\ Abs(the_buttons[i].start_time - the_buttons[j].start_time)
               < settings.min_separation
        /\ the_buttons[i].is_still_pressed = "True"
        /\ the_buttons[j].is_still_pressed = "True"
        /\ the_buttons[i].is_ghost = "True" /\ the_buttons[j].is_ghost = "True"
        /\ output[i] = <<>> /\ output[j] = <<>>

ScenarioA ==
    /\ settings.filter /\ ~settings.is_strict
    /\ settings.max_concurrent = 1 /\ settings.min_separation = 10

\* C7 (as stated): Scenario A: two presses on distinct buttons created 2ms
\* apart and both released before their evaluations are both classified
\* ghost, and neither evaluation writes to the virtual device.
C7_ScenarioAPresses ==
    ScenarioA =>
        \A i, j \in Indices :
            (/\ the_buttons[i].was_a_press /\ the_buttons[j].was_a_press
             /\ the_buttons[i].identifier # the_buttons[j].identifier
             /\ the_buttons[j].start_time - the_buttons[i].start_time = 2
             /\ Evaluated(i) /\ Evaluated(j)
             /\ the_buttons[i].is_still_pressed = "False"
             /\ the_buttons[j].is_still_pressed = "False")
            => /\ the_buttons[i].is_ghost = "True"
               /\ the_buttons[j].is_ghost = "True"
               /\ output[i] = <<>> /\ output[j] = <<>>

\* C7 (amended): Scenario A: a press that is released when it is evaluated,
\* and that is then a member of the active group together with a press on
\* another button created 2ms before or after it, is classified ghost and
\* its evaluation writes nothing to the virtual device.
C7_ScenarioAPressesInGroup ==
    [][\A i \in Indices :
        (/\ ScenarioA
         /\ Evaluates(i) /\ the_buttons[i].was_a_press /\ IsMember(i)
         /\ ~physical[the_buttons[i].identifier]
         /\ \E j \in Others(the_buttons[i]) :
                Abs(the_buttons[i].start_time - the_buttons[j].start_time) = 2)
        => /\ the_buttons'[i].is_ghost = "True"
           /\ output'[i] = <<>>
           /\ virtual' = virtual]_vars

C7_Witness ==
    /\ ScenarioA
    /\ \E i, j \in Indices :
        /\ the_buttons[i].identifier # the_buttons[j].identifier
        /\ IsMember(i) /\ IsMember(j)
        /\ the_buttons[j].start_time - the_buttons[i].start_time = 2
        /\ the_buttons[i].is_still_pressed = "False"
        /\ the_buttons[j].is_still_pressed = "False"
        /\ the_buttons[i].is_ghost = "True" /\ the_buttons[j].is_ghost = "True"
        /\ output[i] = <<>> /\ output[j] = <<>>

\* C8: Scenario B: a press that is the only member of the active group and
\* still held when its evaluation fires is classified legitimate, and the
\* evaluation sets the virtual button of its identifier to pressed.
C8_LonePressForwarded ==
    [][\A i \in Indices :
        (/\ Evaluates(i) /\ the_buttons[i].was_a_press
         /\ DOMAIN active_event.buttons = {the_buttons[i].identifier}
         /\ IsMember(i)
         /\ physical[the_buttons[i].identifier])
        => /\ the_buttons'[i].is_ghost = "False"
           /\ virtual'[the_buttons[i].identifier]
           /\ Len(output'[i]) >= 1
           /\ output'[i][1] = [op |-> "write", id |-> the_buttons[i].identifier,
                               value |-> "True"]]_vars

C8_Witness ==
    \E i \in Indices :
        /\ settings.filter /\ settings.is_strict /\ settings.max_concurrent = 0
        /\ settings.min_separation > 0
        /\ the_buttons[i].was_a_press /\ the_buttons[i].trigger_time = now
        /\ DOMAIN active_event.buttons = {the_buttons[i].identifier}
        /\ IsMember(i)
        /\ the_buttons[i].is_still_pressed = "True"
        /\ the_buttons[i].is_ghost = "False"
        /\ virtual[the_buttons[i].identifier]

\* the callbacks registered for the direction of transition i
RegisteredFor(i) ==
    callbacks[IF the_buttons[i].was_a_press THEN "press" ELSE "release"]
             [the_buttons[i].identifier]

\* C9: a transition classified legitimate invokes the callbacks registered
\* for its identifier and its own direction, once each, in registration
\* order, after the write of the virtual button, and no callback registered
\* for the opposite direction.
C9_CallbacksOfOwnDirection ==
    \A i \in Indices :
        (Evaluated(i) /\ the_buttons[i].is_ghost = "False") =>
            output[i] = <<WriteFor(the_buttons[i])>> \o
                [n \in 1..Len(RegisteredFor(i)) |->
                    [op |-> "call", id |-> the_buttons[i].identifier,
                     value |-> RegisteredFor(i)[n]]]

\* C10: a second run of filter_the_button on an expired press leaves every
\* aggregate counter unchanged, at the call and after the callbacks it
\* scheduled have completed (no transition having arrived since).
C10_SecondRunKeepsCounters ==
    (rerun.done /\ Len(the_buttons) = rerun.count) => totals = rerun.totals

\* the step records the active group in the counters
Records == totals' # totals

\* C11: when a group whose N members all fall in one namespace (allowed or
\* blocked) is recorded, by_simultaneity[N] and the by_combination entry of
\* the member set each grow by 1/N per member, that is by exactly 1 (Scale
\* units) for the group.
C11_GroupWeighsOne ==
    [][\A event_type \in {"allowed", "blocked"} :
        LET members == DOMAIN active_event.buttons
            N == Cardinality(members)
        IN  (/\ Records /\ N > 0
             /\ \A k \in members :
                    (the_buttons'[active_event.buttons[k]].is_ghost = "True")
                        = (event_type = "blocked"))
            => /\ totals'.events[event_type].by_simultaneity[N]
                    = totals.events[event_type].by_simultaneity[N] + Scale
               /\ totals'.events[event_type].by_combination[members]
                    = totals.events[event_type].by_combination[members] + Scale]_vars

\* the step is a run of summarize with logging enabled
Summarizes == logger' # logger

\* C12: summarize() computes the percentage blocked as 100 * blocked.total /
\* (blocked.total + allowed.total) whenever the sum is positive and as 0
\* when it is zero, and logs it rounded to 3 places when it logs; after 3
\* allowed and 2 blocked transitions the percentage is 40.0.
C12_PercentageBlocked ==
    [][Summarizes =>
        LET blocked == totals.buttons.blocked.total
            allowed == totals.buttons.allowed.total
            percentage == logger'.summary.percentage
        IN  /\ percentage.den > 0
            /\ blocked + allowed > 0 =>
                   percentage.num * (blocked + allowed)
                       = 100 * blocked * percentage.den
            /\ blocked + allowed = 0 => percentage.num = 0
            /\ (allowed = 3 /\ blocked = 2) =>
                   percentage.num = 40 * percentage.den
            /\ logger'.lines # logger.lines =>
                   /\ logger'.lines[Len(logger'.lines)].percentage
                          = Rounded3(percentage)
                   /\ (allowed = 3 /\ blocked = 2) =>
                          logger'.lines[Len(logger'.lines)].percentage = 40000]_vars

\* a summary of 3 allowed and 2 blocked transitions was logged
C12_Witness ==
    /\ totals.buttons.allowed.total = 3 /\ totals.buttons.blocked.total = 2
    /\ logger.lines # <<>>
    /\ logger.lines[Len(logger.lines)].allowed = 3
    /\ logger.lines[Len(logger.lines)].blocked = 2
    /\ logger.lines[Len(logger.lines)].percentage = 40000

\* C13: generating a summary changes no entry of the totals, nor the active
\* group, nor the registries (events.last_event, events.complete).
C13_SummaryReadOnly ==
    [][Summarizes =>
        /\ totals' = totals
        /\ active_event' = active_event
        /\ the_buttons' = the_buttons
        /\ last_event' = last_event
        /\ complete' = complete]_vars

\* a summary was logged after a group was recorded and entered in both
\* registries
C13_Witness ==
    /\ logger.lines # <<>>
    /\ logger.lines[Len(logger.lines)].allowed = totals.buttons.allowed.total
    /\ totals.buttons.allowed.total > MaxSingles
    /\ last_event # NoEvent
    /\ DOMAIN complete # {}

\* C14: every aggregate counter (each total, each by_button, by_simultaneity
\* and by_combination entry, in allowed, blocked and mixed) is non-decreasing
\* along every run of a session.
C14_CountersNeverDecrease ==
    [][/\ \A kind \in {"allowed", "blocked", "mixed"} :
            totals'.events[kind].total >= totals.events[kind].total
       /\ \A event_type \in {"allowed", "blocked"} :
            /\ \A n \in Identifiers :
                    totals'.events[event_type].by_simultaneity[n]
                        >= totals.events[event_type].by_simultaneity[n]
            /\ \A c \in Combinations :
                    totals'.events[event_type].by_combination[c]
                        >= totals.events[event_type].by_combination[c]
            /\ totals'.buttons[event_type].total
                    >= totals.buttons[event_type].total
            /\ \A b \in Identifiers :
                    totals'.buttons[event_type].by_button[b]
                        >= totals.buttons[event_type].by_button[b]]_vars

\* two groups were recorded one after the other, the second of another
\* button than the first
C14_Witness ==
    /\ totals.events.allowed.total >= 2
    /\ \E b, c \in Identifiers :
        /\ b # c
        /\ totals.events.allowed.by_combination[{b}] > 0
        /\ totals.events.allowed.by_combination[{c}] > 0
        /\ totals.buttons.allowed.by_button[b] > 0
        /\ totals.buttons.allowed.by_button[c] > 0

\* the deferred evaluations of transition i that have not fired yet
PendingEvaluations(i) ==
    {t \in timers : t.func = "filter_the_button" /\ t.arg = i}

\* C15: every incoming transition schedules exactly one deferred evaluation,
\* due latency after the transition was created; it is never cancelled and
\* runs exactly once, at that time: until it has run it is pending and not
\* overdue, and once it has run none is pending for the transition.
C15_OneEvaluationAtLatency ==
    \A i \in Indices :
        /\ Cardinality(PendingEvaluations(i)) = IF Evaluated(i) THEN 0 ELSE 1
        /\ \A t \in PendingEvaluations(i) :
                /\ t.due = the_buttons[i].start_time + settings.latency
                /\ now <= t.due
        /\ Evaluated(i) =>
                /\ the_buttons[i].trigger_time
                       = the_buttons[i].start_time + settings.latency
                /\ the_buttons[i].is_ghost # None

\* a press evaluated latency after its creation although its group was
\* finalized and replaced by a fresh one before the press expired, and a
\* release evaluated too
C15_Witness ==
    \E i, j \in Indices :
        /\ settings.filter
        /\ the_buttons[i].was_a_press /\ Evaluated(i)
        /\ the_buttons[i].trigger_time
               = the_buttons[i].start_time + settings.latency
        /\ the_buttons[i].end_time = NoTime
        /\ ~IsMember(i) /\ DOMAIN active_event.buttons = {}
        /\ ~the_buttons[j].was_a_press /\ Evaluated(j)

\* the step expires Button i
Expires(i) ==
    /\ the_buttons[i].end_time = NoTime
    /\ the_buttons'[i].end_time # NoTime

\* the step replaces the active group by a fresh empty one
Replaced ==
    /\ active_event' # active_event
    /\ active_event'.buttons = <<>>

\* C16, for callbacks that run one at a time: the active group is never
\* replaced while it still has a non-expired member (it is replaced only by
\* an expiry, which leaves no member non-expired), and it is replaced by a
\* fresh empty group in the same end_tracking call in which its last
\* non-expired member expires.
C16_ReplacedAtLastExpiry ==
    [][/\ Replaced =>
            /\ \E i \in Indices : Expires(i)
            /\ \A k \in DOMAIN active_event.buttons :
                    the_buttons'[active_event.buttons[k]].end_time # NoTime
       /\ \A i \in Indices :
            (/\ Expires(i) /\ IsMember(i)
             /\ \A k \in DOMAIN active_event.buttons :
                    the_buttons'[active_event.buttons[k]].end_time # NoTime)
            => active_event' = Event(now)]_vars

\* a group of two presses was replaced when the second of them expired, a
\* millisecond after the first
C16_Witness ==
    /\ active_event = Event(now)
    /\ \E i, j \in Indices :
        /\ the_buttons[i].was_a_press /\ the_buttons[j].was_a_press
        /\ the_buttons[i].identifier # the_buttons[j].identifier
        /\ the_buttons[i].event_id = the_buttons[j].event_id
        /\ the_buttons[i].end_time # NoTime
        /\ the_buttons[i].end_time < the_buttons[j].end_time
        /\ the_buttons[j].end_time = now
        /\ totals.events.allowed.by_combination[
                {the_buttons[i].identifier, the_buttons[j].identifier}]
             + totals.events.blocked.by_combination[
                {the_buttons[i].identifier, the_buttons[j].identifier}] > 0

\* press i has not been superseded in the dict of its group by a later
\* press of the same identifier
Latest(i) ==
    \A j \in Indices :
        (j > i /\ the_buttons[j].was_a_press)
            => the_buttons[j].identifier # the_buttons[i].identifier

\* C17: under every interleaving of arrivals with timer callbacks, each
\* registered press that has not yet expired is a member of the current
\* active group: no press is left in a group that was finalized and
\* discarded.  (Stated for the latest press of each identifier: an earlier
\* one was overwritten in the dict of the group by the later one.)
C17_ActivePressInActiveGroup ==
    \A i \in Indices :
        (/\ the_buttons[i].was_a_press /\ the_buttons[i].end_time = NoTime
         /\ Latest(i))
            => IsMember(i)

\* C18: under every interleaving of end_tracking callbacks that expire
\* members of the same group, the group is recorded in the counters exactly
\* once: once every press has expired, no more transitions have been
\* counted than presses were registered.
C18_GroupRecordedOnce ==
    (\A i \in Indices :
        the_buttons[i].was_a_press => the_buttons[i].end_time # NoTime)
    => totals.buttons.allowed.total + totals.buttons.blocked.total
          <= Cardinality({i \in Indices : the_buttons[i].was_a_press})

\* C16: the active group is never replaced while it still has a non-expired
\* member, whatever the interleaving of the callbacks.
C16_NeverReplacedWithActiveMember ==
    [][Replaced =>
        \A k \in DOMAIN active_event.buttons :
            the_buttons'[active_event.buttons[k]].end_time # NoTime]_vars

\* C19: a failure of the read of the physical button or of the write of the
\* virtual button during an evaluation is contained: the transition is
\* classified all the same, and once no callback is pending every press has
\* expired and its group has been finalized and counted.
C19_FailureContained ==
    /\ \A i \in Indices :
            PendingEvaluations(i) = {} => the_buttons[i].is_ghost # None
    /\ (timers = {} /\ now > MaxTime) =>
            /\ \A i \in Indices :
                    the_buttons[i].was_a_press => the_buttons[i].end_time # NoTime
            /\ DOMAIN active_event.buttons = {}
            /\ totals.buttons.allowed.total + totals.buttons.blocked.total
                  >= Cardinality({i \in Indices :
                        the_buttons[i].was_a_press /\ Latest(i)})

\* the group press i was added to is no longer the active one: it was
\* finalized and replaced
GroupReplaced(i) ==
    /\ the_buttons[i].was_a_press
    /\ the_buttons[i].event_id # active_event.id

\* C20: an evaluation or expiry callback that fires for a press whose group
\* has already been finalized and replaced is a no-op: it leaves the new
\* active group, the aggregate counters, the registries and the virtual
\* output unchanged.
C20_LateCallbackIsNoOp ==
    [][\A i \in Indices :
        (GroupReplaced(i) /\ (Evaluates(i) \/ Expires(i)))
        => /\ active_event' = active_event
           /\ totals' = totals
           /\ last_event' = last_event
           /\ complete' = complete
           /\ virtual' = virtual
           /\ output' = output]_vars

\* C21: a session constructed with a negative latency, a negative
\* min_separation or a negative max_concurrent is rejected at construction:
\* no session with such a configuration ever processes a transition.
C21_OutOfRangeRejected ==
    (\E i \in Indices : Evaluated(i)) =>
        /\ settings.latency >= 0
        /\ settings.min_separation >= 0
        /\ settings.max_concurrent >= 0

\* C22: summarize() is total: for every reachable state of the counters and
\* every elapsed time, zero included, and also when no transition has been
\* recorded, it completes and raises no error.
C22_SummarizeTotal == raised # "ZeroDivisionError"

\* C23: removal and expiry are idempotent: removing a transition from a
\* group, or a group from a registry, that no longer holds it raises no
\* error (and leaves the membership, the registry and the counters as they
\* were), and so does expiring a transition a second time.
C23_RemovalIdempotent == raised # "KeyError"

\* C24: with min_separation = 0 the classifier is a pure concurrency-count
\* filter: a press is classified ghost iff filtering is on, the group count
\* exceeds max_concurrent, and strict mode is on or the button is no longer
\* held; the proximity of the other members plays no part.
C24_PureConcurrencyFilter ==
    [][\A i \in Indices :
        (/\ Evaluates(i) /\ the_buttons[i].was_a_press
         /\ settings.min_separation = 0)
        => ((the_buttons'[i].is_ghost = "True") <=>
                /\ settings.filter
                /\ Cardinality(DOMAIN active_event.buttons)
                       > settings.max_concurrent
                /\ (settings.is_strict
                       \/ ~physical[the_buttons[i].identifier]))]_vars

\* C25: with max_concurrent = 0, every press that was registered in a group
\* satisfies the concurrency condition at its evaluation: the group count
\* it sees is at least 1, hence above max_concurrent, under every ordering
\* of arrivals and timer callbacks.
C25_GroupedPressAboveZero ==
    [][\A i \in Indices :
        (/\ Evaluates(i) /\ the_buttons[i].was_a_press
         /\ the_buttons[i].event_id # NoTime
         /\ settings.max_concurrent = 0)
        => /\ Cardinality(DOMAIN active_event.buttons) >= 1
           /\ Cardinality(DOMAIN active_event.buttons)
                  > settings.max_concurrent]_vars

\* the step is a reinitialization of the outputs that changed some of them
Reinitializes == virtual' # virtual /\ the_buttons' = the_buttons

\* C26: reinitialize_outputs sets every tracked virtual button: to released
\* when neutral is requested, and otherwise virtual button i to the current
\* physical state of the same button i, for every button of the device.
C26_ReinitializeOutputs ==
    [][Reinitializes =>
        \/ virtual' = [b \in Identifiers |-> FALSE]
        \/ virtual' = physical]_vars

\* C27: when the deferred evaluation of a transition completes, the
\* transition is marked expired and is no longer in the active set of the
\* active group, so that no later evaluation counts it toward concurrency.
C27_ExpiredWhenEvaluated ==
    [][\A i \in Indices :
        Evaluates(i) =>
            /\ the_buttons'[i].end_time # NoTime
            /\ \A k \in DOMAIN active_event'.buttons :
                    the_buttons'[active_event'.buttons[k]].end_time = NoTime
                        => active_event'.buttons[k] # i]_vars

\* the evaluated transitions with the given classification
Classified(is_ghost) ==
    {i \in Indices : Evaluated(i) /\ the_buttons[i].is_ghost = is_ghost}

\* C28: once no callback is pending, every evaluated transition (press or
\* release) has been counted exactly once under the namespace of its
\* classification: buttons.allowed.total and buttons.blocked.total are the
\* numbers of transitions classified legitimate and ghost, and their sum is
\* the number of transitions evaluated.
C28_EveryTransitionCounted ==
    timers = {} =>
        /\ totals.buttons.allowed.total = Cardinality(Classified("False"))
        /\ totals.buttons.blocked.total = Cardinality(Classified("True"))
        /\ totals.buttons.allowed.total + totals.buttons.blocked.total
              = Cardinality({i \in Indices : Evaluated(i)})

\* C29: when a release arrives while the active group holds a transition of
\* the same identifier, the release is linked to that group: its event_id is
\* the id of the active group from its arrival on, hence before its own
\* evaluation runs.
C29_ReleaseLinked ==
    [][\A i \in 1..Len(the_buttons') :
        (/\ i > Len(the_buttons)
         /\ ~the_buttons'[i].was_a_press
         /\ the_buttons'[i].identifier \in DOMAIN active_event.buttons)
        => the_buttons'[i].event_id = active_event.id]_vars

\* the event total of the given class grows by 1 in the step
Grows(kind) == totals'.events[kind].total = totals.events[kind].total + 1

\* C30: when a group is finalized it is counted under exactly one event
\* class: exactly one of the three event totals grows by 1, the others stay;
\* it is blocked if every member is ghost, allowed if every member is
\* legitimate, mixed if it has a ghost and a legitimate member.
C30_OneEventClass ==
    [][Records =>
        LET members == DOMAIN active_event.buttons
            is_ghost(k) == the_buttons'[active_event.buttons[k]].is_ghost
        IN  /\ \E kind \in {"allowed", "blocked", "mixed"} :
                    /\ Grows(kind)
                    /\ \A other \in {"allowed", "blocked", "mixed"} \ {kind} :
                            totals'.events[other].total
                                = totals.events[other].total
            /\ (members # {} /\ \A k \in members : is_ghost(k) = "True")
                    => Grows("blocked")
            /\ (members # {} /\ \A k \in members : is_ghost(k) = "False")
                    => Grows("allowed")
            /\ (/\ \E k \in members : is_ghost(k) = "True"
                /\ \E k \in members : is_ghost(k) = "False")
                    => Grows("mixed")]_vars

\* a group of two presses, one classified ghost and one legitimate, was
\* finalized and counted as a mixed event
C30_Witness ==
    /\ totals.events.mixed.total = 1
    /\ totals.buttons.blocked.total = 1
    /\ totals.buttons.allowed.total = 1
    /\ active_event = Event(now)

\* the step is the arrival of Button i
Arrives(i) == i = Len(the_buttons) + 1 /\ Len(the_buttons') = i

\* C31: a group holds at most one transition per identifier: a press whose
\* identifier is already present replaces the earlier one, and the expiry
\* of the replaced press does not finalize the group while the newer press
\* has not expired.
C31_OnePerIdentifier ==
    [][/\ \A k \in DOMAIN active_event'.buttons :
            the_buttons'[active_event'.buttons[k]].identifier = k
       /\ \A i \in 1..Len(the_buttons') :
            (Arrives(i) /\ the_buttons'[i].was_a_press)
                => /\ active_event'.buttons[the_buttons'[i].identifier] = i
                   /\ \A k \in DOMAIN active_event.buttons :
                        k # the_buttons'[i].identifier
                            => active_event'.buttons[k] = active_event.buttons[k]
       /\ \A i, j \in Indices :
            (/\ Expires(i) /\ i < j
             /\ the_buttons[j].was_a_press
             /\ the_buttons[j].identifier = the_buttons[i].identifier
             /\ IsMember(j)
             /\ the_buttons'[j].end_time = NoTime)
            => /\ active_event' = active_event
               /\ totals' = totals]_vars

\* the first press of a button has expired after a second press of the
\* same button replaced it in the group, which is still the active one and
\* holds the second press, not yet expired
C31_Witness ==
    \E i, j \in Indices :
        /\ i < j
        /\ the_buttons[i].was_a_press /\ the_buttons[j].was_a_press
        /\ the_buttons[i].identifier = the_buttons[j].identifier
        /\ the_buttons[i].event_id = the_buttons[j].event_id
        /\ the_buttons[i].end_time # NoTime
        /\ the_buttons[j].end_time = NoTime
        /\ IsMember(j)
        /\ settings.filter

\* C32: clone_event yields a snapshot with the identity, the start time, the
\* end time and the member set the group has at the call; adding,
\* overwriting or removing a member of the live group afterwards leaves the
\* member set of the snapshot as it was, and removing a member of the
\* snapshot leaves the live group as it was.
C32_CloneIsSnapshot ==
    [][/\ clone_active_event =>
            /\ last_event'.id = active_event.id
            /\ last_event'.start_time = active_event.start_time
            /\ last_event'.end_time = active_event.end_time
            /\ last_event'.buttons = active_event.buttons
       /\ (\E identifier \in Identifiers :
                \/ callback(identifier, MaxCloneTransitions, 0)
                \/ remove_button("active_event", identifier))
            => last_event'.buttons = last_event.buttons
       /\ (\E identifier \in Identifiers :
                remove_button("last_event", identifier))
            => active_event'.buttons = active_event.buttons]_vars

\* a snapshot of a group of one press was taken; since then the live group
\* was given a press of another button and lost the first one, and the
\* snapshot still holds the first one only
C32_Witness ==
    \E i, j \in Indices :
        /\ the_buttons[i].was_a_press /\ the_buttons[j].was_a_press
        /\ the_buttons[i].identifier # the_buttons[j].identifier
        /\ the_buttons[i].end_time = NoTime /\ the_buttons[j].end_time = NoTime
        /\ last_event.id = active_event.id
        /\ last_event.start_time = active_event.start_time
        /\ DOMAIN last_event.buttons = {the_buttons[i].identifier}
        /\ last_event.buttons[the_buttons[i].identifier] = i
        /\ DOMAIN active_event.buttons = {the_buttons[j].identifier}

\* C33: the interval check between a group and the previous group is true
\* exactly when the absolute difference of their start times is below the
\* threshold of 4 x latency, a difference of zero included, and false
\* otherwise; stated for every flush that makes the check (debug mode, a
\* previous group on record).
C33_IntervalCheck ==
    [][(Records /\ general.debug /\ last_event # NoEvent) =>
        (is_event_within_threshold(active_event, last_event)
            <=> Abs(active_event.start_time - last_event.start_time)
                    < 4 * settings.latency)]_vars

\* the presses registered so far
Presses == {i \in Indices : the_buttons[i].was_a_press}

\* every transition is classified, every press has expired, the active
\* group is a fresh one without members, and at least as many groups were
\* counted as groups were given a press
Settled ==
    /\ timers = {}
    /\ \A i \in Indices : Evaluated(i) /\ the_buttons[i].is_ghost # None
    /\ \A i \in Presses : the_buttons[i].end_time # NoTime
    /\ active_event.buttons = <<>> /\ active_event.end_time = NoTime
    /\ totals.events.allowed.total + totals.events.blocked.total
            + totals.events.mixed.total
          >= Cardinality({the_buttons[i].event_id : i \in Presses})
    /\ totals.buttons.allowed.total + totals.buttons.blocked.total
          >= Cardinality({the_buttons[i].identifier : i \in Presses})

\* C34: once transitions stop arriving, and with timer callbacks scheduled
\* fairly, every registered press is eventually classified and expired, and
\* the session reaches, and stays in, a state where the active group is a
\* fresh group without members and every earlier group has been finalized
\* and counted.
C34_EventuallySettled == <>[]Settled

\* the session has settled after presses in two groups and a release
C34_Witness ==
    /\ Settled
    /\ \E i, j \in Presses : the_buttons[i].event_id # the_buttons[j].event_id
    /\ \E i \in Indices : ~the_buttons[i].was_a_press

\* C35: no latching: in every state where no evaluation or expiry callback
\* is pending, each virtual button that is pressed has its physical button
\* pressed too, whatever the transitions, the order of the timer callbacks
\* and the mode switches were.
C35_NoLatching ==
    timers = {} => \A b \in Identifiers : virtual[b] => physical[b]

\* presses i and j are on distinct buttons, were created less than
\* latency_window apart, and neither was overwritten in its group by a later
\* press of its own button
CloseDistinct(i, j) ==
    /\ i \in Presses /\ j \in Presses
    /\ the_buttons[i].identifier # the_buttons[j].identifier
    /\ the_buttons[i].start_time - the_buttons[j].start_time < settings.latency
    /\ the_buttons[j].start_time - the_buttons[i].start_time < settings.latency
    /\ Latest(i) /\ Latest(j)

\* C36: with latency_window > 0, two presses on distinct buttons created
\* less than latency_window apart are both members of the active group at
\* the evaluation of each of them: neither has expired and the group has
\* not been replaced by then.
C36_CloseInSameGroup ==
    [][\A i, j \in Indices :
        (settings.latency > 0 /\ Evaluates(i) /\ CloseDistinct(i, j))
            => (IsMember(i) /\ IsMember(j))]_vars


\* the step finalizes the active group: it counts it in the totals
Finalizes == totals' # totals

\* C37: a press is never expired before it is classified: a press whose
\* expiry time is set has is_ghost true or false, never None, and so every
\* member of a group that is being finalized carries a classification.
C37_ClassifiedBeforeExpired ==
    [][/\ \A i \in Presses :
            the_buttons[i].end_time # NoTime => the_buttons[i].is_ghost # None
       /\ Finalizes =>
            \A k \in DOMAIN active_event.buttons :
                the_buttons[active_event.buttons[k]].is_ghost # None]_vars

EventsTotal ==
    totals.events.allowed.total + totals.events.blocked.total
        + totals.events.mixed.total

\* C38: the three event totals sum to the number of finalized groups (the
\* sum changes only when a group is finalized, by exactly one), and every
\* finalized group had at least one member: an empty group is never
\* finalized or counted.
C38_NoEmptyGroupCounted ==
    [][EventsTotal' # EventsTotal =>
            /\ EventsTotal' = EventsTotal + 1
            /\ active_event.buttons # <<>>]_vars

Delivered == 1..Len(delivered)

Filtered(i) == delivered[i].still_pressed # None

\* C39: in the set-based version a press is blocked exactly when filtering
\* is enabled, the number of monitored buttons is at least button_threshold
\* and the button is no longer pressed at its evaluation; every release is
\* forwarded; and once no callback is pending, concurrent_presses is empty.
C39_SetBasedFilter ==
    /\ \A i \in Delivered :
        (Filtered(i) /\ delivered[i].is_pressed) =>
            (delivered[i].written = None
                <=> /\ settings.button_filtering
                    /\ delivered[i].monitored >= settings.button_threshold
                    /\ delivered[i].still_pressed = "False")
    /\ \A i \in Delivered :
        (Filtered(i) /\ ~delivered[i].is_pressed) =>
            delivered[i].written = delivered[i].still_pressed
    /\ timers = {} => concurrent_presses = {}

\* no callback is pending after one press was blocked while another button
\* was monitored, one press was forwarded and a release was forwarded
C39_Witness ==
    /\ timers = {}
    /\ \E i, j, k \in Delivered :
        /\ delivered[i].is_pressed /\ Filtered(i)
        /\ delivered[i].written = None /\ delivered[i].monitored = 2
        /\ delivered[j].is_pressed /\ delivered[j].written = "True"
        /\ ~delivered[k].is_pressed /\ delivered[k].written = "False"

\* the presses that are being monitored: counted by start_monitoring and
\* not yet by end_monitoring
Monitored ==
    {i \in Delivered :
        /\ delivered[i].is_pressed /\ ~delivered[i].ended
        /\ \A thread \in threads : thread.arg # i}

\* C40: in the counter-based version concurrent_presses equals the number
\* of presses whose monitoring window has not ended (whenever no increment
\* or decrement is under way), it is never negative, and it is 0 again once
\* no callback is pending, under every interleaving of the press callbacks
\* with the timer callbacks.
C40_CounterMatchesMonitored ==
    /\ concurrent_presses >= 0
    /\ threads = {} => concurrent_presses = Cardinality(Monitored)
    /\ (threads = {} /\ timers = {}) => concurrent_presses = 0
====

